---------------------------- MODULE Spec2Model ----------------------------
(***************************************************************************)
(* Faculty qualification evaluation of backend/routers/research.py:        *)
(* the exemption resolver (get_active_exemptions, is_in_grace_period),     *)
(* the requirement calculator (calculate_qualification_status) and its two *)
(* re-implementations inside get_faculty_overview and                      *)
(* get_researcher_timeline.                                                *)
(*                                                                         *)
(* The state is the stored snapshot of one faculty member (the user row,   *)
(* the exemption grants with their types, the publications with the        *)
(* member's categorization rows, the professional activities) and the      *)
(* response of the last evaluation, with the exemption_types table.  Under *)
(* Spec the snapshot is drawn in Init and every action computes a response *)
(* from it; the current status also stores the publications it fetches.    *)
(* Under AdminSpec the table starts empty and the exemption types and the  *)
(* grants are written through the administration endpoints.                *)
(*                                                                         *)
(* Python values:  an Optional[int] is <<>> (None) or <<v>>; an enum or a  *)
(* string column is a string, "None" standing for NULL.                    *)
(*                                                                         *)
(* ExemptionType.grace_period_years is read by the router (research.py     *)
(* lines 460, 476, 515, 1354) as a nullable integer attribute of the type; *)
(* models/research.py declares no such column and no endpoint writes it,   *)
(* so its domain (NULL or a number of years >= 0) is the one of the data   *)
(* model of the specification.                                             *)
(***************************************************************************)
EXTENDS Integers, Sequences, FiniteSets, TLC

VARIABLES user, exemptions, exemption_types, contributions, activities, response

vars == <<user, exemptions, exemption_types, contributions, activities, response>>

-----------------------------------------------------------------------------
(* Python helpers *)

None == <<>>

Some(v) == <<v>>

\* bool(o) of an Optional[int]: None and 0 are falsy
Truthy(o) == o # <<>> /\ o[1] # 0

\* the expression `o or d`
OrElse(o, d) == IF Truthy(o) THEN o[1] ELSE d

Max(a, b) == IF a >= b THEN a ELSE b

RECURSIVE SumSeq(_)
SumSeq(s) == IF s = <<>> THEN 0 ELSE Head(s) + SumSeq(Tail(s))

\* [f(x) for x in s]
MapSeq(s, F(_)) == [i \in 1..Len(s) |-> F(s[i])]

\* sum(1 for x in s if P(x))
CountSeq(s, P(_)) == Len(SelectSeq(s, P))

\* n copies of x
Repeat(x, n) == [i \in 1..n |-> x]

-----------------------------------------------------------------------------
(* Constants of the program *)

REFERENCE_YEAR == 2025

\* `exemption.year_to or REFERENCE_YEAR + 10`: how far an open grant reaches
OngoingHorizon == 10

BaseIcSA == 6

BasePrjSA == 3

BaseIcSP == 5

BasePrjSP == 1

BaseActivities == 6

\* year_from = year_to - 5 (overview), start_year = end_year - 5 (timeline),
\* reference_year - 5 (current status)
WindowSpan == 5

\* year_from = REFERENCE_YEAR - 6 of get_my_contributions
ContributionSpan == 6

ProgrammeLeader == "Programme Leader"

-----------------------------------------------------------------------------
(* Exemption resolver *)

\* effective_end that forgets the grace period
effective_end_no_grace(exemption) ==
    OrElse(exemption.year_to, REFERENCE_YEAR + OngoingHorizon)

\* effective_end of get_active_exemptions
effective_end(exemption) ==
    OrElse(exemption.year_to, REFERENCE_YEAR + OngoingHorizon)
        + OrElse(exemption.exemption_type.grace_period_years, 0)

\* the overlap test that wants the effective end to reach the end of the window
overlaps_until_window_end(exemption, year_from, year_to) ==
    exemption.year_from <= year_to /\ effective_end(exemption) >= year_to

\* the overlap test of get_active_exemptions
overlaps(exemption, year_from, year_to) ==
    exemption.year_from <= year_to /\ effective_end(exemption) >= year_from

get_active_exemptions(user_exemptions, year_from, year_to) ==
    SelectSeq(user_exemptions, LAMBDA e : overlaps(e, year_from, year_to))

\* is_in_grace_period that counts the last year of the grant itself
is_in_grace_period_from_year_to(exemption, reference_year) ==
    IF ~Truthy(exemption.year_to) THEN FALSE
    ELSE LET grace_period == OrElse(exemption.exemption_type.grace_period_years, 0)
         IN  IF grace_period = 0 THEN FALSE
             ELSE /\ exemption.year_to[1] <= reference_year
                  /\ reference_year <= exemption.year_to[1] + grace_period

is_in_grace_period(exemption, reference_year) ==
    IF ~Truthy(exemption.year_to) THEN FALSE
    ELSE LET grace_period == OrElse(exemption.exemption_type.grace_period_years, 0)
         IN  IF grace_period = 0 THEN FALSE
             ELSE /\ exemption.year_to[1] < reference_year
                  /\ reference_year <= exemption.year_to[1] + grace_period

-----------------------------------------------------------------------------
(* Current status: calculate_qualification_status *)

\* the full-exemption test that takes a grant as over in its last year
status_full_applies_strict(exemption, u, reference_year) ==
    LET ex_type == exemption.exemption_type IN
    /\ ex_type.grants_full_exemption
    /\ IF Truthy(ex_type.years_after_degree) /\ Truthy(u.degree_year)
       THEN reference_year - u.degree_year[1] <= ex_type.years_after_degree[1]
       ELSE IF ~Truthy(ex_type.years_after_degree)
       THEN \/ is_in_grace_period(exemption, reference_year)
            \/ ~Truthy(exemption.year_to)
            \/ exemption.year_to[1] > reference_year
       ELSE FALSE

\* the test of the full-exemption loop for one exemption (lines 502-521)
status_full_applies(exemption, u, reference_year) ==
    LET ex_type == exemption.exemption_type IN
    /\ ex_type.grants_full_exemption
    /\ IF Truthy(ex_type.years_after_degree) /\ Truthy(u.degree_year)
       THEN reference_year - u.degree_year[1] <= ex_type.years_after_degree[1]
       ELSE IF ~Truthy(ex_type.years_after_degree)
       THEN \/ is_in_grace_period(exemption, reference_year)
            \/ ~Truthy(exemption.year_to)
            \/ exemption.year_to[1] >= reference_year
       ELSE FALSE

\* the loop with its break: the first exemption that applies, <<>> if none
RECURSIVE status_full_exemption(_, _, _)
status_full_exemption(exs, u, reference_year) ==
    IF exs = <<>> THEN <<>>
    ELSE IF status_full_applies(Head(exs), u, reference_year) THEN <<Head(exs)>>
    ELSE status_full_exemption(Tail(exs), u, reference_year)

\* the reduction loop without its `continue`
status_partial_all(exs) == exs

\* the exemptions the reduction loop does not skip (lines 539-543)
status_partial(exs) ==
    SelectSeq(exs, LAMBDA e : ~e.exemption_type.grants_full_exemption)

\* is_programme_leader taken from the first active exemption only
status_is_programme_leader_first(exs) ==
    exs # <<>> /\ exs[1].exemption_type.name = ProgrammeLeader

status_is_programme_leader(exs) ==
    \E i \in DOMAIN status_partial(exs) :
        status_partial(exs)[i].exemption_type.name = ProgrammeLeader

\* the IC reduction of the last partial exemption alone, not the sum
status_ic_reduction_last(exs) ==
    LET partial == status_partial(exs) IN
    IF partial = <<>> THEN 0
    ELSE IF partial[Len(partial)].exemption_type.reduces_ic_requirement
    THEN partial[Len(partial)].exemption_type.ic_reduction ELSE 0

status_ic_reduction(exs) ==
    SumSeq(MapSeq(status_partial(exs), LAMBDA e :
        IF e.exemption_type.reduces_ic_requirement
        THEN e.exemption_type.ic_reduction ELSE 0))

status_prj_reduction(exs) ==
    SumSeq(MapSeq(status_partial(exs), LAMBDA e :
        IF e.exemption_type.reduces_prj_requirement
        THEN e.exemption_type.prj_reduction ELSE 0))

status_activity_reduction(exs) ==
    SumSeq(MapSeq(status_partial(exs), LAMBDA e :
        IF e.exemption_type.reduces_activity_requirement
        THEN e.exemption_type.activity_reduction ELSE 0))

\* the SA branch with the Programme Leader requirement of the SP branch
status_prj_required_SA_fixed(prj_reduction, is_programme_leader) ==
    IF is_programme_leader THEN BasePrjSP ELSE Max(0, BasePrjSA - prj_reduction)

\* the SA branch without the Programme Leader floor
status_prj_required_SA_no_floor(prj_reduction, is_programme_leader) ==
    Max(0, BasePrjSA - prj_reduction)

\* prj_required of the SA branch (lines 572-574)
status_prj_required_SA(prj_reduction, is_programme_leader) ==
    LET prj_required == Max(0, BasePrjSA - prj_reduction)
    IN  IF is_programme_leader THEN Max(1, prj_required) ELSE prj_required

\* prj_required of the SP branch (line 607)
status_prj_required_SP(prj_reduction, is_programme_leader) ==
    IF is_programme_leader THEN Max(1, BasePrjSP - prj_reduction)
    ELSE Max(0, BasePrjSP - prj_reduction)

\* the PA and IP branches without the activity reduction
status_activities_required_base(activity_reduction) == BaseActivities

\* the PA and IP branches without the clamp at zero
status_activities_required_no_clamp(activity_reduction) ==
    BaseActivities - activity_reduction

\* activities_required of the PA and IP branches (lines 592, 625)
status_activities_required(activity_reduction) ==
    Max(0, BaseActivities - activity_reduction)

\* sum(1 for c in contributions if c.get("my_categorization", {})
\*        .get("publication_type") == publication_type)
status_count(contribs, publication_type) ==
    CountSeq(contribs, LAMBDA c : c.my_categorization = publication_type)

\* the warnings of a branch that stops at the first failing dimension
ic_warnings_first_only(prj_count, total_ics, prj_required, ic_required) ==
    IF prj_count < prj_required
    THEN <<[dimension |-> "prj", gap |-> prj_required - prj_count]>>
    ELSE IF total_ics < ic_required
    THEN <<[dimension |-> "ic", gap |-> ic_required - total_ics]>>
    ELSE <<>>

\* the two warnings of the SA and SP branches
ic_warnings(prj_count, total_ics, prj_required, ic_required) ==
    (IF prj_count < prj_required
     THEN <<[dimension |-> "prj", gap |-> prj_required - prj_count]>> ELSE <<>>)
    \o
    (IF total_ics < ic_required
     THEN <<[dimension |-> "ic", gap |-> ic_required - total_ics]>> ELSE <<>>)

activity_warnings(activity_count, activities_required) ==
    IF activity_count < activities_required
    THEN <<[dimension |-> "activity", gap |-> activities_required - activity_count]>>
    ELSE <<>>

\* the chain without the full-exemption branch
status_branch_numeric(full_exemption, category) == category

\* the if/elif chain of lines 562-633: the full exemption comes first, then the
\* branch of the category; any other category falls through with met = True
status_branch(full_exemption, category) ==
    IF full_exemption # <<>> THEN "full" ELSE category

\* calculate_qualification_status(user, contributions, activities,
\*                                exemptions=None, reference_year)
\* `contribs` are the dicts of get_my_contributions: my_categorization is
\* "absent" where the dict holds None (no categorization row), and then
\* None.get(...) raises.
calculate_qualification_status(u, user_exemptions, contribs, acts, reference_year) ==
    IF u.faculty_category = "None" THEN [status |-> "not_set"]
    ELSE
    LET exs == get_active_exemptions(user_exemptions,
                                     reference_year - WindowSpan, reference_year)
        full_exemption == status_full_exemption(exs, u, reference_year)
    IN
    IF \E i \in DOMAIN contribs : contribs[i].my_categorization = "absent"
    THEN [status |-> "error"]
    ELSE
    LET category == u.faculty_category
        prj_count == status_count(contribs, "prj_article")
        peer_reviewed_count == status_count(contribs, "peer_reviewed_other")
        other_ic_count == status_count(contribs, "other_ic")
        total_ics == prj_count + peer_reviewed_count + other_ic_count
        activity_count == Len(acts)
        total_ic_reduction == status_ic_reduction(exs)
        total_prj_reduction == status_prj_reduction(exs)
        total_activity_reduction == status_activity_reduction(exs)
        is_programme_leader == status_is_programme_leader(exs)
        branch == status_branch(full_exemption, category)
        ic_required ==
            IF branch = "SA" THEN Some(Max(0, BaseIcSA - total_ic_reduction))
            ELSE IF branch = "SP" THEN Some(Max(0, BaseIcSP - total_ic_reduction))
            ELSE None
        prj_required ==
            IF branch = "SA"
            THEN Some(status_prj_required_SA(total_prj_reduction, is_programme_leader))
            ELSE IF branch = "SP"
            THEN Some(status_prj_required_SP(total_prj_reduction, is_programme_leader))
            ELSE None
        activities_required ==
            IF branch \in {"PA", "IP"}
            THEN Some(status_activities_required(total_activity_reduction))
            ELSE None
        met ==
            IF branch \in {"SA", "SP"}
            THEN ~(prj_count < prj_required[1]) /\ ~(total_ics < ic_required[1])
            ELSE IF branch \in {"PA", "IP"}
            THEN ~(activity_count < activities_required[1])
            ELSE TRUE
        warnings ==
            IF branch \in {"SA", "SP"}
            THEN ic_warnings(prj_count, total_ics, prj_required[1], ic_required[1])
            ELSE IF branch \in {"PA", "IP"}
            THEN activity_warnings(activity_count, activities_required[1])
            ELSE <<>>
    IN  [ status |-> "ok",
          category |-> category,
          reference_year |-> reference_year,
          requirements |->
              [ exemption_applied |-> full_exemption # <<>>,
                full_exemption |-> IF full_exemption = <<>> THEN 0
                                   ELSE full_exemption[1].id,
                total_ics_required |-> ic_required,
                prj_required |-> prj_required,
                activities_required |-> activities_required ],
          current |->
              [ prj_articles |-> prj_count,
                peer_reviewed_other |-> peer_reviewed_count,
                other_ics |-> other_ic_count,
                total_ics |-> total_ics,
                professional_activities |-> activity_count ],
          requirements_met |-> met,
          warnings |-> warnings,
          exemptions |-> MapSeq(exs, LAMBDA e :
              [ id |-> e.id,
                in_grace_period |-> is_in_grace_period(e, reference_year) ]),
          is_programme_leader |-> is_programme_leader,
          reductions |-> [ ic |-> total_ic_reduction,
                           prj |-> total_prj_reduction,
                           activity |-> total_activity_reduction ] ]

\* get_my_contributions(year_from=REFERENCE_YEAR - 6, year_to=REFERENCE_YEAR):
\* the publications NVA returns for the period, none without a researcher id
get_my_contributions(u, contribs, year_from, year_to) ==
    IF u.researcher_id = "None" THEN <<>>
    ELSE SelectSeq(contribs, LAMBDA c :
             /\ Truthy(c.year)
             /\ year_from <= c.year[1]
             /\ c.year[1] <= year_to)

\* get_or_create_ic(db, nva_id, parsed): the row of intellectual_contributions
\* exists afterwards (db.add, db.commit when it did not)
get_or_create_ic(c) == [c EXCEPT !.ic_stored = TRUE]

\* the publications after the loop of get_my_contributions over what NVA
\* returned for the period
after_get_my_contributions(u, contribs, year_from, year_to) ==
    [i \in DOMAIN contribs |->
        IF /\ u.researcher_id # "None"
           /\ Truthy(contribs[i].year)
           /\ year_from <= contribs[i].year[1]
           /\ contribs[i].year[1] <= year_to
        THEN get_or_create_ic(contribs[i])
        ELSE contribs[i]]

-----------------------------------------------------------------------------
(* Faculty overview: the loop body of get_faculty_overview for one member *)

\* the stored categorization rows (user.intellectual_contributions)
intellectual_contributions(contribs) ==
    SelectSeq(contribs, LAMBDA c : c.my_categorization # "absent")

overview_count(contribs, year_from, year_to, publication_type) ==
    CountSeq(intellectual_contributions(contribs), LAMBDA uic :
        /\ Truthy(uic.year)
        /\ year_from <= uic.year[1]
        /\ uic.year[1] <= year_to
        /\ uic.my_categorization = publication_type)

overview_full_applies(exemption, u, year_to) ==
    LET ex_type == exemption.exemption_type IN
    /\ ex_type.grants_full_exemption
    /\ IF Truthy(ex_type.years_after_degree) /\ Truthy(u.degree_year)
       THEN year_to - u.degree_year[1] <= ex_type.years_after_degree[1]
       ELSE IF ~Truthy(ex_type.years_after_degree)
       THEN \/ is_in_grace_period(exemption, year_to)
            \/ ~Truthy(exemption.year_to)
            \/ exemption.year_to[1] >= year_to
       ELSE FALSE

\* the loop of lines 1008-1025 with its break: has_full_exemption, and
\* is_programme_leader as set by the exemptions visited before the break
RECURSIVE overview_scan(_, _, _)
overview_scan(exs, u, year_to) ==
    IF exs = <<>>
    THEN [has_full_exemption |-> FALSE, is_programme_leader |-> FALSE]
    ELSE LET named == Head(exs).exemption_type.name = ProgrammeLeader IN
         IF overview_full_applies(Head(exs), u, year_to)
         THEN [has_full_exemption |-> TRUE, is_programme_leader |-> named]
         ELSE LET rest == overview_scan(Tail(exs), u, year_to) IN
              [ has_full_exemption |-> rest.has_full_exemption,
                is_programme_leader |-> named \/ rest.is_programme_leader ]

overview_ic_reduction(exs) ==
    SumSeq(MapSeq(SelectSeq(exs, LAMBDA e :
                      /\ e.exemption_type.reduces_ic_requirement
                      /\ ~e.exemption_type.grants_full_exemption),
                  LAMBDA e : e.exemption_type.ic_reduction))

overview_prj_reduction(exs) ==
    SumSeq(MapSeq(SelectSeq(exs, LAMBDA e :
                      /\ e.exemption_type.reduces_prj_requirement
                      /\ ~e.exemption_type.grants_full_exemption),
                  LAMBDA e : e.exemption_type.prj_reduction))

overview_activity_reduction(exs) ==
    SumSeq(MapSeq(SelectSeq(exs, LAMBDA e :
                      /\ e.exemption_type.reduces_activity_requirement
                      /\ ~e.exemption_type.grants_full_exemption),
                  LAMBDA e : e.exemption_type.activity_reduction))

overview_prj_required_SA(prj_reduction, is_programme_leader) ==
    LET prj_required == Max(0, BasePrjSA - prj_reduction)
    IN  IF is_programme_leader THEN Max(1, prj_required) ELSE prj_required

overview_prj_required_SP(prj_reduction, is_programme_leader) ==
    IF is_programme_leader THEN 1 ELSE Max(0, BasePrjSP - prj_reduction)

\* one entry of `overview`, with the locals of the loop body
overview_entry(u, user_exemptions, contribs, acts, year_from, year_to) ==
    LET prj_count == overview_count(contribs, year_from, year_to, "prj_article")
        peer_reviewed_count ==
            overview_count(contribs, year_from, year_to, "peer_reviewed_other")
        other_ic_count == overview_count(contribs, year_from, year_to, "other_ic")
        total_ics == prj_count + peer_reviewed_count + other_ic_count
        activity_count == CountSeq(acts, LAMBDA a :
                              year_from <= a.year /\ a.year <= year_to)
        active_exemptions == get_active_exemptions(user_exemptions, year_from, year_to)
        scan == overview_scan(active_exemptions, u, year_to)
        total_ic_reduction == overview_ic_reduction(active_exemptions)
        total_prj_reduction == overview_prj_reduction(active_exemptions)
        total_activity_reduction == overview_activity_reduction(active_exemptions)
        category == u.faculty_category
        branch == IF scan.has_full_exemption THEN "full" ELSE category
        ic_required ==
            IF branch = "SA" THEN Some(Max(0, BaseIcSA - total_ic_reduction))
            ELSE IF branch = "SP" THEN Some(Max(0, BaseIcSP - total_ic_reduction))
            ELSE None
        prj_required ==
            IF branch = "SA"
            THEN Some(overview_prj_required_SA(total_prj_reduction,
                                               scan.is_programme_leader))
            ELSE IF branch = "SP"
            THEN Some(overview_prj_required_SP(total_prj_reduction,
                                               scan.is_programme_leader))
            ELSE None
        activities_required ==
            IF branch \in {"PA", "IP"}
            THEN Some(Max(0, BaseActivities - total_activity_reduction))
            ELSE None
        met ==
            IF branch \in {"SA", "SP"}
            THEN prj_count >= prj_required[1] /\ total_ics >= ic_required[1]
            ELSE IF branch \in {"PA", "IP"}
            THEN activity_count >= activities_required[1]
            ELSE TRUE
    IN  [ faculty_category |-> category,
          ics |-> [ prj_articles |-> prj_count,
                    peer_reviewed_other |-> peer_reviewed_count,
                    other_ics |-> other_ic_count,
                    total |-> total_ics ],
          activities |-> activity_count,
          requirements_met |-> met,
          exemption_count |-> Len(active_exemptions),
          active_ids |-> MapSeq(active_exemptions, LAMBDA e : e.id),
          has_full_exemption |-> scan.has_full_exemption,
          is_programme_leader |-> scan.is_programme_leader,
          reductions |-> [ ic |-> total_ic_reduction,
                           prj |-> total_prj_reduction,
                           activity |-> total_activity_reduction ],
          total_ics_required |-> ic_required,
          prj_required |-> prj_required,
          activities_required |-> activities_required ]

\* get_faculty_overview(year_from, year_to) restricted to the member: the
\* query keeps the active users whose faculty_category is not NULL
get_faculty_overview(u, user_exemptions, contribs, acts, q_year_from, q_year_to) ==
    LET year_to == OrElse(q_year_to, REFERENCE_YEAR)
        year_from == OrElse(q_year_from, year_to - WindowSpan)
    IN  [ period |-> [year_from |-> year_from, year_to |-> year_to],
          faculty |-> IF ~u.active \/ u.faculty_category = "None" THEN <<>>
                      ELSE <<overview_entry(u, user_exemptions, contribs, acts,
                                            year_from, year_to)>> ]

-----------------------------------------------------------------------------
(* Researcher timeline: get_researcher_timeline *)

SetMin(S) == CHOOSE x \in S : \A y \in S : x <= y

SetMax(S) == CHOOSE x \in S : \A y \in S : x >= y

\* ics_by_year.get(year, []): the categorization rows of the year; a row
\* whose contribution has no year is skipped
ics_by_year(contribs, year) ==
    SelectSeq(intellectual_contributions(contribs), LAMBDA uic :
        Truthy(uic.year) /\ uic.year[1] = year)

activities_by_year(acts, year) == SelectSeq(acts, LAMBDA a : a.year = year)

is_prj(uic) == uic.my_categorization = "prj_article"

\* all_years, {REFERENCE_YEAR} when nothing is recorded
all_years(contribs, acts) ==
    LET recorded ==
            {intellectual_contributions(contribs)[i].year[1] :
                i \in {j \in DOMAIN intellectual_contributions(contribs) :
                         Truthy(intellectual_contributions(contribs)[j].year)}}
            \cup {acts[i].year : i \in DOMAIN acts}
    IN  IF recorded = {} THEN {REFERENCE_YEAR} ELSE recorded

timeline_year(contribs, acts, year) ==
    LET year_ics == ics_by_year(contribs, year)
        prj_count == CountSeq(year_ics, is_prj)
    IN  [ year |-> year,
          ic_count |-> Len(year_ics),
          prj_count |-> prj_count,
          other_ic_count |-> Len(year_ics) - prj_count,
          activity_count |-> Len(activities_by_year(acts, year)) ]

\* the sums of one window over its years (lines 1198-1206)
window_sum(start_year, end_year, F(_)) ==
    SumSeq([k \in 1..(end_year - start_year + 1) |-> F(start_year + k - 1)])

timeline_full_applies(exemption, u, end_year) ==
    LET ex_type == exemption.exemption_type IN
    /\ ex_type.grants_full_exemption
    /\ IF Truthy(ex_type.years_after_degree) /\ Truthy(u.degree_year)
       THEN end_year - u.degree_year[1] <= ex_type.years_after_degree[1]
       ELSE IF ~Truthy(ex_type.years_after_degree)
       THEN \/ is_in_grace_period(exemption, end_year)
            \/ ~Truthy(exemption.year_to)
            \/ exemption.year_to[1] >= end_year
       ELSE FALSE

\* the loop of lines 1216-1238, which has no break
timeline_has_full_exemption(exs, u, end_year) ==
    \E i \in DOMAIN exs : timeline_full_applies(exs[i], u, end_year)

\* is_programme_leader taken from the first active exemption only
timeline_is_programme_leader_first(exs) ==
    exs # <<>> /\ exs[1].exemption_type.name = ProgrammeLeader

timeline_is_programme_leader(exs) ==
    \E i \in DOMAIN exs : exs[i].exemption_type.name = ProgrammeLeader

timeline_ic_reduction(exs) ==
    SumSeq(MapSeq(exs, LAMBDA e :
        IF ~e.exemption_type.grants_full_exemption
           /\ e.exemption_type.reduces_ic_requirement
        THEN e.exemption_type.ic_reduction ELSE 0))

timeline_prj_reduction(exs) ==
    SumSeq(MapSeq(exs, LAMBDA e :
        IF ~e.exemption_type.grants_full_exemption
           /\ e.exemption_type.reduces_prj_requirement
        THEN e.exemption_type.prj_reduction ELSE 0))

timeline_activity_reduction(exs) ==
    SumSeq(MapSeq(exs, LAMBDA e :
        IF ~e.exemption_type.grants_full_exemption
           /\ e.exemption_type.reduces_activity_requirement
        THEN e.exemption_type.activity_reduction ELSE 0))

timeline_prj_required_SA(prj_reduction, is_programme_leader) ==
    LET prj_required == Max(0, BasePrjSA - prj_reduction)
    IN  IF is_programme_leader THEN Max(1, prj_required) ELSE prj_required

timeline_prj_required_SP(prj_reduction, is_programme_leader) ==
    IF is_programme_leader THEN 1 ELSE Max(0, BasePrjSP - prj_reduction)

\* the notes of the SA and SP branches of a window: f"PRJ: {count}/{required}",
\* f"IC: {count}/{required}"
timeline_ic_notes(window_prj, window_ics, prj_required, ic_required) ==
    (IF window_prj < prj_required
     THEN <<[dimension |-> "prj", count |-> window_prj, required |-> prj_required]>>
     ELSE <<>>)
    \o
    (IF window_ics < ic_required
     THEN <<[dimension |-> "ic", count |-> window_ics, required |-> ic_required]>>
     ELSE <<>>)

\* f"Activities: {count}/{required}"
timeline_activity_notes(window_activities, activities_required) ==
    IF window_activities < activities_required
    THEN <<[ dimension |-> "activity", count |-> window_activities,
             required |-> activities_required ]>>
    ELSE <<>>

\* is_future that takes the window ending at the reference year as future
window_is_future_from_reference_year(end_year) == end_year >= REFERENCE_YEAR

\* "is_future": end_year > REFERENCE_YEAR
window_is_future(end_year) == end_year > REFERENCE_YEAR

\* "is_current": start_year == REFERENCE_YEAR - 5 and end_year == REFERENCE_YEAR
window_is_current(start_year, end_year) ==
    start_year = REFERENCE_YEAR - WindowSpan /\ end_year = REFERENCE_YEAR

\* one element of rolling_windows, with the locals of the loop body
rolling_window(u, user_exemptions, contribs, acts, end_year) ==
    LET start_year == end_year - WindowSpan
        window_prj == window_sum(start_year, end_year, LAMBDA y :
                          CountSeq(ics_by_year(contribs, y), is_prj))
        window_ics == window_sum(start_year, end_year, LAMBDA y :
                          Len(ics_by_year(contribs, y)))
        window_activities == window_sum(start_year, end_year, LAMBDA y :
                                 Len(activities_by_year(acts, y)))
        active_exemptions ==
            get_active_exemptions(user_exemptions, start_year, end_year)
        has_full_exemption ==
            timeline_has_full_exemption(active_exemptions, u, end_year)
        is_programme_leader == timeline_is_programme_leader(active_exemptions)
        ic_reduction == timeline_ic_reduction(active_exemptions)
        prj_reduction == timeline_prj_reduction(active_exemptions)
        activity_reduction == timeline_activity_reduction(active_exemptions)
        category == u.faculty_category
        branch == IF has_full_exemption THEN "full" ELSE category
        ic_required ==
            IF branch = "SA" THEN Some(Max(0, BaseIcSA - ic_reduction))
            ELSE IF branch = "SP" THEN Some(Max(0, BaseIcSP - ic_reduction))
            ELSE None
        prj_required ==
            IF branch = "SA"
            THEN Some(timeline_prj_required_SA(prj_reduction, is_programme_leader))
            ELSE IF branch = "SP"
            THEN Some(timeline_prj_required_SP(prj_reduction, is_programme_leader))
            ELSE None
        activities_required ==
            IF branch \in {"PA", "IP"}
            THEN Some(Max(0, BaseActivities - activity_reduction))
            ELSE None
        meets_requirements ==
            IF branch \in {"SA", "SP"}
            THEN ~(window_prj < prj_required[1]) /\ ~(window_ics < ic_required[1])
            ELSE IF branch \in {"PA", "IP"}
            THEN ~(window_activities < activities_required[1])
            ELSE TRUE
        status_notes ==
            IF branch = "full"
            THEN <<[dimension |-> "full", count |-> 0, required |-> 0]>>
            ELSE IF branch \in {"SA", "SP"}
            THEN timeline_ic_notes(window_prj, window_ics,
                                   prj_required[1], ic_required[1])
            ELSE IF branch \in {"PA", "IP"}
            THEN timeline_activity_notes(window_activities, activities_required[1])
            ELSE <<>>
    IN  [ year_from |-> start_year,
          year_to |-> end_year,
          prj_count |-> window_prj,
          total_ics |-> window_ics,
          activities |-> window_activities,
          meets_requirements |-> meets_requirements,
          status_notes |-> status_notes,
          is_current |-> window_is_current(start_year, end_year),
          is_future |-> window_is_future(end_year),
          active_ids |-> MapSeq(active_exemptions, LAMBDA e : e.id),
          has_full_exemption |-> has_full_exemption,
          is_programme_leader |-> is_programme_leader,
          reductions |-> [ ic |-> ic_reduction,
                           prj |-> prj_reduction,
                           activity |-> activity_reduction ],
          total_ics_required |-> ic_required,
          prj_required |-> prj_required,
          activities_required |-> activities_required ]

\* the window ends without the two years of look-ahead
window_ends_until_max_year(min_year, max_year) ==
    LET first_end == Max(min_year + WindowSpan, REFERENCE_YEAR - 2)
    IN  [k \in 1..(max_year + 1 - first_end) |-> first_end + k - 1]

\* range(max(min_year + 5, REFERENCE_YEAR - 2), max_year + 3)
window_ends(min_year, max_year) ==
    LET first_end == Max(min_year + WindowSpan, REFERENCE_YEAR - 2)
    IN  [k \in 1..(max_year + 3 - first_end) |-> first_end + k - 1]

\* the risk periods that take every window not met, whenever it ends
risk_periods_all_unmet(rolling_windows) ==
    SelectSeq(rolling_windows, LAMBDA w : ~w.meets_requirements)

\* [w for w in rolling_windows if not w["meets_requirements"] and w["is_future"]]
risk_periods(rolling_windows) ==
    SelectSeq(rolling_windows, LAMBDA w : ~w.meets_requirements /\ w.is_future)

get_researcher_timeline(u, user_exemptions, contribs, acts) ==
    LET years == all_years(contribs, acts)
        min_year == SetMin(years)
        max_year == Max(SetMax(years), REFERENCE_YEAR)
        timeline == [k \in 1..(max_year - min_year + 1) |->
                        timeline_year(contribs, acts, min_year + k - 1)]
        ends == window_ends(min_year, max_year)
        rolling_windows ==
            [k \in DOMAIN ends |->
                rolling_window(u, user_exemptions, contribs, acts, ends[k])]
        risks == risk_periods(rolling_windows)
    IN  [ faculty_category |-> u.faculty_category,
          timeline |-> timeline,
          rolling_windows |-> rolling_windows,
          at_risk |-> Len(risks) > 0,
          risk_periods |-> risks,
          totals |-> [ total_ics |-> SumSeq(MapSeq(timeline, LAMBDA y : y.ic_count)),
                       total_prj |-> SumSeq(MapSeq(timeline, LAMBDA y : y.prj_count)),
                       total_activities |->
                           SumSeq(MapSeq(timeline, LAMBDA y : y.activity_count)) ] ]

-----------------------------------------------------------------------------
(* Stored snapshots *)

\* bounds of the enumerated records
MaxPrj == 3

MaxOtherIc == 4

MaxActivities == 7

\* a row of exemption_types; flags = <<reduces_ic, reduces_prj, reduces_activity>>,
\* magnitudes = <<ic_reduction, prj_reduction, activity_reduction>>
ExemptionType(name, full, flags, magnitudes, years_after_degree, grace) ==
    [ name |-> name,
      grants_full_exemption |-> full,
      reduces_ic_requirement |-> flags[1],
      reduces_prj_requirement |-> flags[2],
      reduces_activity_requirement |-> flags[3],
      ic_reduction |-> magnitudes[1],
      prj_reduction |-> magnitudes[2],
      activity_reduction |-> magnitudes[3],
      years_after_degree |-> years_after_degree,
      grace_period_years |-> grace ]

\* a row of user_exemptions, before its id is assigned
UserExemption(ex_type, year_from, year_to) ==
    [exemption_type |-> ex_type, year_from |-> year_from, year_to |-> year_to]

\* ids in insertion order (autoincrement)
WithIds(grants) ==
    [i \in DOMAIN grants |->
        [ id |-> i,
          exemption_type |-> grants[i].exemption_type,
          year_from |-> grants[i].year_from,
          year_to |-> grants[i].year_to ]]

User(category, degree_year, researcher_id) ==
    [ active |-> TRUE,
      faculty_category |-> category,
      degree_year |-> degree_year,
      researcher_id |-> researcher_id ]

\* publications of one year: n_prj PRJ articles, n_other other ICs
\* (alternating the two non-PRJ types)
Publications(year, n_prj, n_other) ==
    Repeat([ year |-> Some(year), ic_stored |-> TRUE,
             my_categorization |-> "prj_article" ], n_prj)
    \o [i \in 1..n_other |->
           [ year |-> Some(year), ic_stored |-> TRUE,
             my_categorization |-> IF i % 2 = 1 THEN "other_ic"
                                   ELSE "peer_reviewed_other" ]]

Activities(year, n) == Repeat([year |-> year], n)

Snapshot(u, grants, contribs, acts) ==
    [user |-> u, exemptions |-> WithIds(grants),
     contributions |-> contribs, activities |-> acts]

GraceYears == {None, Some(0), Some(2)}

GrantFromYears == {2015, 2021, 2030}

GrantToYears == {None, Some(2018), Some(2020), Some(2026)}

\* the year of the enumerated publications and activities: inside every
\* window the evaluations look at
RecordYear == REFERENCE_YEAR - 3

Categories == {"SA", "PA", "SP", "IP", "Other", "None"}

NoFlags == <<FALSE, FALSE, FALSE>>

AllFlags == <<TRUE, TRUE, TRUE>>

\* Slice 1, the resolver: one or two grants over every combination of start,
\* end, grace period and full/partial
ResolverGrants ==
    { UserExemption(ExemptionType("Sabbatical", full, <<FALSE, TRUE, FALSE>>,
                                  <<0, 1, 0>>, None, grace), yf, yt) :
        full \in BOOLEAN, grace \in GraceYears,
        yf \in GrantFromYears, yt \in GrantToYears }

SecondGrants ==
    { UserExemption(ExemptionType("Dean", TRUE, NoFlags, <<0, 0, 0>>,
                                  None, Some(2)), 2015, Some(2024)),
      UserExemption(ExemptionType(ProgrammeLeader, FALSE, <<TRUE, FALSE, FALSE>>,
                                  <<2, 0, 0>>, None, None), 2021, None) }

ResolverSnapshots ==
    { Snapshot(User(c, None, "r1"), gs, Publications(RecordYear, 2, 3), <<>>) :
        c \in {"SA", "PA"},
        gs \in {<<g>> : g \in ResolverGrants}
               \cup {<<g, h>> : g \in ResolverGrants, h \in SecondGrants}
               \cup {<<h, g>> : g \in ResolverGrants, h \in SecondGrants} }

\* Slice 2, degree-anchored and service full exemptions, every category
DegreeYears == {None, Some(2010), Some(2023)}

YearsAfterDegree == {None, Some(0), Some(3)}

FullGrants ==
    { UserExemption(ExemptionType("New Doctoral Graduate", TRUE, AllFlags,
                                  <<2, 2, 2>>, yad, grace), 2020, yt) :
        yad \in YearsAfterDegree, grace \in {None, Some(2)},
        yt \in {None, Some(2024)} }

FullSnapshots ==
    { Snapshot(User(c, d, "r1"), <<g>>,
               Publications(RecordYear, n, n), Activities(RecordYear, 2 * n)) :
        c \in Categories, d \in DegreeYears, g \in FullGrants, n \in {0, MaxPrj} }

\* Slice 3, the calculator: grants active in every evaluated window, over the
\* reduction profiles, with the counts around the thresholds
ReductionProfiles ==
    { <<NoFlags, <<0, 0, 0>> >>,
      <<NoFlags, <<2, 2, 2>> >>,
      <<AllFlags, <<7, 4, 7>> >>,
      <<AllFlags, <<1, 1, 1>> >>,
      << <<TRUE, FALSE, FALSE>>, <<2, 0, 0>> >>,
      << <<FALSE, TRUE, FALSE>>, <<0, 1, 0>> >>,
      << <<FALSE, TRUE, FALSE>>, <<0, 0 - 1, 0>> >>,
      << <<FALSE, FALSE, TRUE>>, <<0, 0, 3>> >> }

PartialGrants ==
    { UserExemption(ExemptionType(name, FALSE, p[1], p[2], None, None),
                    2019, None) :
        name \in {ProgrammeLeader, "Sabbatical"}, p \in ReductionProfiles }

\* full-exemption types that are active in the window but do not apply at the
\* reference year: ended in 2021 without grace period
LapsedFullGrants ==
    { UserExemption(ExemptionType(name, TRUE, AllFlags, <<2, 2, 2>>, None, None),
                    2019, Some(2021)) :
        name \in {ProgrammeLeader, "Dean"} }

CalculatorGrantLists ==
    {<<>>}
    \cup {<<g>> : g \in PartialGrants \cup LapsedFullGrants}
    \cup {<<g, h>> : g \in PartialGrants \cup LapsedFullGrants,
                     h \in { UserExemption(ExemptionType("Sabbatical", FALSE,
                                 AllFlags, <<1, 1, 1>>, None, None), 2019, None),
                             UserExemption(ExemptionType(ProgrammeLeader, FALSE,
                                 <<TRUE, FALSE, FALSE>>, <<2, 0, 0>>, None, None),
                                 2019, None) }}

CalculatorSnapshots ==
    { Snapshot(User(c, None, "r1"), gs,
               Publications(RecordYear, n_prj, n_other), <<>>) :
        c \in {"SA", "SP"}, gs \in CalculatorGrantLists,
        n_prj \in 0..MaxPrj, n_other \in 0..MaxOtherIc }
    \cup
    { Snapshot(User(c, None, "r1"), gs,
               Publications(RecordYear, 1, 1), Activities(RecordYear, n)) :
        c \in {"PA", "IP", "Other"}, gs \in CalculatorGrantLists,
        n \in 0..MaxActivities }

\* n publications of one year that the member has not categorized: row is
\* "None" for a categorization row whose publication_type is NULL, "absent"
\* for a publication NVA returns and the member has no row for, which the
\* system has not stored yet
Uncategorized(year, n, row) ==
    Repeat([ year |-> Some(year), ic_stored |-> row # "absent",
             my_categorization |-> row ], n)

\* Slice 4, the periods: records dated before, at the edges of, inside and
\* after the evaluated windows, with and without uncategorized publications
RecordYears == {2016, 2019, 2020, 2024, 2026}

PublicationProfiles == {<<0, 0>>, <<3, 2>>}

UncategorizedProfiles == {<<0, "None">>, <<1, "None">>, <<1, "absent">>}

PeriodSnapshots ==
    { Snapshot(User(c, None, "r1"), <<>>,
               Publications(y1, n[1], n[2]) \o Uncategorized(y2, u[1], u[2]),
               Activities(y3, a)) :
        c \in {"SA", "PA"}, y1 \in RecordYears, y2 \in RecordYears,
        y3 \in RecordYears, n \in PublicationProfiles,
        u \in UncategorizedProfiles, a \in {0, BaseActivities} }

\* exemption_types.name is unique: two grants whose types have the same name
\* are grants of the same type
UniqueTypeNames(grants) ==
    \A i, j \in DOMAIN grants :
        grants[i].exemption_type.name = grants[j].exemption_type.name
            => grants[i].exemption_type = grants[j].exemption_type

Snapshots ==
    { s \in ResolverSnapshots \cup FullSnapshots \cup CalculatorSnapshots
             \cup PeriodSnapshots : UniqueTypeNames(s.exemptions) }

-----------------------------------------------------------------------------
(* Inputs of the evaluations *)

ReferenceYears == {2021, 2022, 2023, 2025, 2026, 2027, 2028, 2041}

\* (year_from, year_to) of the faculty overview; <<>> is an omitted parameter
OverviewQueries ==
    { <<None, None>>, <<None, Some(2022)>>, <<None, Some(2023)>>,
      <<Some(2019), Some(2025)>>, <<Some(2036), Some(2041)>> }

\* the windows the three evaluations hand to get_active_exemptions
EvaluationWindows ==
    {<<r - WindowSpan, r>> : r \in ReferenceYears}
    \cup {<<2019, 2025>>, <<2036, 2041>>}

-----------------------------------------------------------------------------
(* The state machine *)

Init ==
    /\ \E s \in Snapshots :
          /\ user = s.user
          /\ exemptions = s.exemptions
          /\ exemption_types =
                 {s.exemptions[i].exemption_type : i \in DOMAIN s.exemptions}
          /\ contributions = s.contributions
          /\ activities = s.activities
    /\ response = [op |-> "none"]

stored == <<user, exemptions, exemption_types, contributions, activities>>

\* The relationships user.exemptions, user.intellectual_contributions and
\* user.professional_activities have no order_by: the rows of a member are
\* loaded in an order the database chooses.
Reverse(s) == [i \in 1..Len(s) |-> s[Len(s) + 1 - i]]

\* every order in which the rows of s can be loaded
Orderings(s) ==
    { [i \in DOMAIN s |-> s[p[i]]] :
        p \in {f \in [DOMAIN s -> DOMAIN s] :
                  \A i, j \in DOMAIN s : i # j => f[i] # f[j]} }

\* the orders tried for the longer lists, whose rows enter the counts only
EndToEnd(s) == {s, Reverse(s)}

\* no request is being answered; each evaluation is taken from the idle state
\* and its response is then returned
Idle == response.op = "none"

\* get_active_exemptions(user, year_from, year_to)
GetActiveExemptions ==
    /\ Idle
    /\ \E w \in EvaluationWindows :
          response' =
              [ op |-> "active",
                year_from |-> w[1],
                year_to |-> w[2],
                active |-> get_active_exemptions(exemptions, w[1], w[2]) ]
    /\ UNCHANGED stored

\* is_in_grace_period(exemption, reference_year)
IsInGracePeriod ==
    /\ Idle
    /\ \E i \in DOMAIN exemptions, reference_year \in ReferenceYears :
          response' =
              [ op |-> "grace",
                exemption |-> exemptions[i],
                reference_year |-> reference_year,
                in_grace_period |-> is_in_grace_period(exemptions[i], reference_year) ]
    /\ UNCHANGED stored

\* calculate_qualification_status(user, contributions, activities,
\* reference_year=...) on the arguments get_my_qualification_status passes,
\* with the period of its response
CalculateQualificationStatus ==
    /\ Idle
    /\ \E reference_year \in ReferenceYears, exs \in Orderings(exemptions) :
          response' =
              [ op |-> "status",
                period |-> [ year_from |-> REFERENCE_YEAR - ContributionSpan,
                             year_to |-> REFERENCE_YEAR ],
                qualification |->
                    calculate_qualification_status(user, exs,
                        get_my_contributions(user, contributions,
                            REFERENCE_YEAR - ContributionSpan, REFERENCE_YEAR),
                        activities, reference_year) ]
    /\ contributions' = after_get_my_contributions(user, contributions,
                            REFERENCE_YEAR - ContributionSpan, REFERENCE_YEAR)
    /\ UNCHANGED <<user, exemptions, exemption_types, activities>>

\* GET /research/faculty-overview
GetFacultyOverview ==
    /\ Idle
    /\ \E q \in OverviewQueries, exs \in Orderings(exemptions) :
          response' =
              [ op |-> "overview",
                overview |-> get_faculty_overview(user, exs, contributions,
                                                  activities, q[1], q[2]) ]
    /\ UNCHANGED stored

\* GET /research/admin/user/{user_id}/timeline
GetResearcherTimeline ==
    /\ Idle
    /\ \E exs \in Orderings(exemptions), contribs \in EndToEnd(contributions),
          acts \in EndToEnd(activities) :
          response' =
              [ op |-> "timeline",
                timeline |-> get_researcher_timeline(user, exs, contribs, acts) ]
    /\ UNCHANGED stored

\* the response is sent; the handler's locals are gone
Return ==
    /\ ~Idle
    /\ response' = [op |-> "none"]
    /\ UNCHANGED stored

Next ==
    \/ GetActiveExemptions
    \/ IsInGracePeriod
    \/ CalculateQualificationStatus
    \/ GetFacultyOverview
    \/ GetResearcherTimeline
    \/ Return

Spec == Init /\ [][Next]_vars

-----------------------------------------------------------------------------
(* Administration of the exemption types and of the grants *)

MaxTypes == 2

MaxGrants == 2

\* the request body of POST and PUT /exemption-types: the reductions are
\* declared `int`, without a validator
ExemptionTypeCreate(name, full, flags, magnitudes, years_after_degree) ==
    [ name |-> name,
      grants_full_exemption |-> full,
      reduces_ic_requirement |-> flags[1],
      reduces_prj_requirement |-> flags[2],
      reduces_activity_requirement |-> flags[3],
      ic_reduction |-> magnitudes[1],
      prj_reduction |-> magnitudes[2],
      activity_reduction |-> magnitudes[3],
      years_after_degree |-> years_after_degree ]

\* the request bodies tried: reductions above and below zero
ExemptionTypeBodies ==
    { ExemptionTypeCreate(name, FALSE, AllFlags, m, None) :
        name \in {"Sabbatical", "Research Leave"},
        m \in {<<1, 1, 1>>, <<0 - 1, 0 - 1, 0 - 2>>} }
    \cup { ExemptionTypeCreate("Dean", TRUE, NoFlags, <<0, 0, 0>>, None) }

\* the row create_exemption_type builds from the body; the body has no
\* grace period
exemption_type_row(data) ==
    ExemptionType(data.name, data.grants_full_exemption,
                  << data.reduces_ic_requirement, data.reduces_prj_requirement,
                     data.reduces_activity_requirement >>,
                  <<data.ic_reduction, data.prj_reduction, data.activity_reduction>>,
                  data.years_after_degree, None)

\* the assignments of update_exemption_type to the row it found
updated_exemption_type(exemption_type, data) ==
    [ exemption_type EXCEPT
        !.name = data.name,
        !.grants_full_exemption = data.grants_full_exemption,
        !.reduces_ic_requirement = data.reduces_ic_requirement,
        !.reduces_prj_requirement = data.reduces_prj_requirement,
        !.reduces_activity_requirement = data.reduces_activity_requirement,
        !.ic_reduction = data.ic_reduction,
        !.prj_reduction = data.prj_reduction,
        !.activity_reduction = data.activity_reduction,
        !.years_after_degree = data.years_after_degree ]

\* POST /research/exemption-types; a body whose name exists is rejected
CreateExemptionType ==
    /\ Idle
    /\ Cardinality(exemption_types) < MaxTypes
    /\ \E data \in ExemptionTypeBodies :
          /\ \A t \in exemption_types : t.name # data.name
          /\ exemption_types' = exemption_types \cup {exemption_type_row(data)}
    /\ UNCHANGED <<user, exemptions, contributions, activities, response>>

\* PUT /research/exemption-types/{type_id}; the grants of the type refer to
\* the updated row
UpdateExemptionType ==
    /\ Idle
    /\ \E exemption_type \in exemption_types, data \in ExemptionTypeBodies :
          /\ \A t \in exemption_types \ {exemption_type} : t.name # data.name
          /\ exemption_types' =
                 (exemption_types \ {exemption_type})
                 \cup {updated_exemption_type(exemption_type, data)}
          /\ exemptions' =
                 [i \in DOMAIN exemptions |->
                     IF exemptions[i].exemption_type = exemption_type
                     THEN [exemptions[i] EXCEPT !.exemption_type =
                              updated_exemption_type(exemption_type, data)]
                     ELSE exemptions[i]]
    /\ UNCHANGED <<user, contributions, activities, response>>

\* POST /research/admin/user/{user_id}/exemptions
AddUserExemption ==
    /\ Idle
    /\ Len(exemptions) < MaxGrants
    /\ \E exemption_type \in exemption_types, year_to \in {None, Some(2021)} :
          exemptions' =
              Append(exemptions,
                     [ id |-> Len(exemptions) + 1,
                       exemption_type |-> exemption_type,
                       year_from |-> 2019,
                       year_to |-> year_to ])
    /\ UNCHANGED <<user, exemption_types, contributions, activities, response>>

\* a member who meets the base requirements of the category, and no
\* exemption type yet
AdminInit ==
    /\ \E s \in { Snapshot(User("SA", None, "r1"), <<>>,
                           Publications(RecordYear, BasePrjSA, BaseIcSA - BasePrjSA),
                           <<>>),
                  Snapshot(User("PA", None, "r1"), <<>>, <<>>,
                           Activities(RecordYear, BaseActivities)) } :
          /\ user = s.user
          /\ exemptions = s.exemptions
          /\ contributions = s.contributions
          /\ activities = s.activities
    /\ exemption_types = {}
    /\ response = [op |-> "none"]

AdminNext ==
    \/ CreateExemptionType
    \/ UpdateExemptionType
    \/ AddUserExemption
    \/ CalculateQualificationStatus
    \/ GetFacultyOverview
    \/ GetResearcherTimeline
    \/ Return

AdminSpec == AdminInit /\ [][AdminNext]_vars

-----------------------------------------------------------------------------
(* Properties *)

\* the grace period as the contract reads it: 0 when unset
GraceOf(exemption) ==
    IF exemption.exemption_type.grace_period_years = None THEN 0
    ELSE exemption.exemption_type.grace_period_years[1]

InSeq(x, s) == \E k \in DOMAIN s : s[k] = x

\* C1: get_active_exemptions(user, windowStart, windowEnd) returns a grant
\* whose yearTo is set if and only if yearFrom <= windowEnd and
\* yearTo + gracePeriodYears >= windowStart (grace 0 when unset); it returns
\* nothing but the member's grants, in their stored order.
C1_ActiveIffOverlap ==
    response.op = "active" =>
        /\ \A i \in DOMAIN exemptions :
              exemptions[i].year_to # None =>
                  ( InSeq(exemptions[i], response.active)
                    <=> /\ exemptions[i].year_from <= response.year_to
                        /\ exemptions[i].year_to[1] + GraceOf(exemptions[i])
                               >= response.year_from )
        /\ \A k \in DOMAIN response.active : InSeq(response.active[k], exemptions)
        /\ \A k, l \in DOMAIN response.active :
              k < l => response.active[k].id < response.active[l].id

\* of two grants, the one that ended before the window starts is returned
\* because of its grace period
C1_Witness ==
    /\ response.op = "active"
    /\ Len(exemptions) = 2
    /\ \E i \in DOMAIN exemptions :
          /\ exemptions[i].year_to # None
          /\ exemptions[i].year_to[1] < response.year_from
          /\ InSeq(exemptions[i], response.active)

\* C2: a grant with yearTo = null is active for every window whose end is
\* >= its yearFrom, however far in the future, and an ongoing full-exemption
\* grant without yearsAfterDegree yields full exemption at every future
\* reference year.
C2_OngoingIsUnbounded ==
    /\ response.op = "active" =>
          \A i \in DOMAIN exemptions :
              (exemptions[i].year_to = None
               /\ exemptions[i].year_from <= response.year_to)
                  => InSeq(exemptions[i], response.active)
    /\ (response.op = "status" /\ response.qualification.status = "ok") =>
          \A i \in DOMAIN exemptions :
              ( /\ exemptions[i].year_to = None
                /\ exemptions[i].exemption_type.grants_full_exemption
                /\ exemptions[i].exemption_type.years_after_degree = None
                /\ exemptions[i].year_from <= response.qualification.reference_year )
                  => response.qualification.requirements.exemption_applied

\* C3: is_in_grace_period(grant, referenceYear) is true if and only if the
\* grant has a yearTo, its type's gracePeriodYears is greater than zero, and
\* yearTo < referenceYear <= yearTo + gracePeriodYears.
C3_GracePeriodIff ==
    response.op = "grace" =>
        ( response.in_grace_period
          <=> /\ response.exemption.year_to # None
              /\ response.exemption.exemption_type.grace_period_years # None
              /\ response.exemption.exemption_type.grace_period_years[1] > 0
              /\ response.exemption.year_to[1] < response.reference_year
              /\ response.reference_year
                     <= response.exemption.year_to[1]
                        + response.exemption.exemption_type.grace_period_years[1] )

\* a grant asked about in the last year of its grace period
C3_Witness ==
    /\ response.op = "grace"
    /\ response.in_grace_period
    /\ response.exemption.year_to # None
    /\ response.reference_year
           = response.exemption.year_to[1]
             + response.exemption.exemption_type.grace_period_years[1]

\* a note of a timeline window gives the count and the requirement; the gap
\* it reports is their difference
NoteGap(n) == [dimension |-> n.dimension, gap |-> n.required - n.count]

\* the evaluations a response holds, one per verdict: the current status, the
\* member's entry of the overview, each rolling window of the timeline
Evaluations ==
    IF response.op = "status" /\ response.qualification.status = "ok"
    THEN LET q == response.qualification IN
         { [ kind |-> "status",
             category |-> q.category,
             reference_year |-> q.reference_year,
             year_from |-> response.period.year_from,
             year_to |-> response.period.year_to,
             active_ids |-> MapSeq(q.exemptions, LAMBDA e : e.id),
             full |-> q.requirements.exemption_applied,
             is_programme_leader |-> q.is_programme_leader,
             reductions |-> q.reductions,
             prj |-> q.current.prj_articles,
             total_ics |-> q.current.total_ics,
             activities |-> q.current.professional_activities,
             ic_required |-> q.requirements.total_ics_required,
             prj_required |-> q.requirements.prj_required,
             activities_required |-> q.requirements.activities_required,
             met |-> q.requirements_met,
             shortfalls |-> q.warnings ] }
    ELSE IF response.op = "overview"
    THEN { [ kind |-> "overview",
             category |-> f.faculty_category,
             reference_year |-> response.overview.period.year_to,
             year_from |-> response.overview.period.year_from,
             year_to |-> response.overview.period.year_to,
             active_ids |-> f.active_ids,
             full |-> f.has_full_exemption,
             is_programme_leader |-> f.is_programme_leader,
             reductions |-> f.reductions,
             prj |-> f.ics.prj_articles,
             total_ics |-> f.ics.total,
             activities |-> f.activities,
             ic_required |-> f.total_ics_required,
             prj_required |-> f.prj_required,
             activities_required |-> f.activities_required,
             met |-> f.requirements_met,
             shortfalls |-> <<>> ] :
           f \in {response.overview.faculty[k] : k \in DOMAIN response.overview.faculty} }
    ELSE IF response.op = "timeline"
    THEN { [ kind |-> "timeline",
             category |-> response.timeline.faculty_category,
             reference_year |-> w.year_to,
             year_from |-> w.year_from,
             year_to |-> w.year_to,
             active_ids |-> w.active_ids,
             full |-> w.has_full_exemption,
             is_programme_leader |-> w.is_programme_leader,
             reductions |-> w.reductions,
             prj |-> w.prj_count,
             total_ics |-> w.total_ics,
             activities |-> w.activities,
             ic_required |-> w.total_ics_required,
             prj_required |-> w.prj_required,
             activities_required |-> w.activities_required,
             met |-> w.meets_requirements,
             shortfalls |-> MapSeq(SelectSeq(w.status_notes,
                                       LAMBDA n : n.dimension # "full"),
                                   NoteGap) ] :
           w \in {response.timeline.rolling_windows[k] :
                    k \in DOMAIN response.timeline.rolling_windows} }
    ELSE {}

\* the grants of the member that an evaluation found active
ActiveGrants(ev) == {exemptions[i] : i \in {ev.active_ids[k] : k \in DOMAIN ev.active_ids}}

\* the grants the claim on grace-period activation is about
EndedIn2020WithGrace2(g) ==
    /\ g.year_to = Some(2020)
    /\ g.exemption_type.grace_period_years = Some(2)
    /\ g.year_from <= 2020

SixYearWindow == response.year_from = response.year_to - WindowSpan

\* C4 as stated: the grant with yearTo = 2020 and gracePeriodYears = 2 is
\* active at reference years 2021 and 2022 (window [R-5, R]) and not active at
\* reference year 2023, where a partial type's reduction no longer applies.
C4_Original ==
    /\ (response.op = "active" /\ SixYearWindow) =>
          \A i \in DOMAIN exemptions :
              EndedIn2020WithGrace2(exemptions[i]) =>
                  /\ response.year_to \in {2021, 2022}
                        => InSeq(exemptions[i], response.active)
                  /\ response.year_to = 2023
                        => ~InSeq(exemptions[i], response.active)
    /\ \A ev \in Evaluations :
          (ev.kind = "status" /\ ev.reference_year = 2023 /\ Len(exemptions) = 1
           /\ EndedIn2020WithGrace2(exemptions[1])
           /\ ~exemptions[1].exemption_type.grants_full_exemption)
              => ev.reductions.prj = 0

\* C4, amended: that grant is active at every reference year from 2021 through
\* 2027, 2023 included, because the window [R-5, R] still reaches its effective
\* end 2022, and is not active from 2028 on; a partial type's reduction applies
\* at exactly the reference years at which the grant is active.
C4_GraceActivation ==
    /\ (response.op = "active" /\ SixYearWindow /\ response.year_to >= 2021) =>
          \A i \in DOMAIN exemptions :
              EndedIn2020WithGrace2(exemptions[i]) =>
                  ( InSeq(exemptions[i], response.active)
                    <=> response.year_to <= 2027 )
    /\ \A ev \in Evaluations :
          (ev.kind = "status" /\ ev.reference_year >= 2021 /\ Len(exemptions) = 1
           /\ EndedIn2020WithGrace2(exemptions[1])
           /\ ~exemptions[1].exemption_type.grants_full_exemption)
              => /\ InSeq(1, ev.active_ids) <=> ev.reference_year <= 2027
                 /\ ev.reductions.prj
                       = IF ev.reference_year <= 2027
                         THEN exemptions[1].exemption_type.prj_reduction ELSE 0

\* the partial grant ended in 2020 still reduces the requirement at 2023
C4_Witness ==
    \E ev \in Evaluations :
        /\ ev.kind = "status"
        /\ ev.reference_year = 2023
        /\ Len(exemptions) = 1
        /\ EndedIn2020WithGrace2(exemptions[1])
        /\ ~exemptions[1].exemption_type.grants_full_exemption
        /\ ev.reductions.prj = 1

\* C5: an active grant whose type grants full exemption and has
\* yearsAfterDegree set (0 included) yields full exemption at reference year R
\* if and only if degreeYear is known and R - degreeYear <= yearsAfterDegree;
\* with degreeYear unknown it never does.  (Stated on the members whose only
\* grant is that one.)
C5_DegreeAnchored ==
    \A ev \in Evaluations :
        ( /\ ev.kind = "status"
          /\ Len(exemptions) = 1
          /\ InSeq(1, ev.active_ids)
          /\ exemptions[1].exemption_type.grants_full_exemption
          /\ exemptions[1].exemption_type.years_after_degree # None )
            => ( ev.full
                 <=> /\ user.degree_year # None
                     /\ ev.reference_year - user.degree_year[1]
                            <= exemptions[1].exemption_type.years_after_degree[1] )

\* the service rule of the contract for one grant at reference year r
ServiceRule(g, r) ==
    \/ g.year_to = None
    \/ g.year_to[1] >= r
    \/ (g.year_to[1] < r /\ r <= g.year_to[1] + GraceOf(g))

\* C6: an active grant whose type grants full exemption and has no
\* yearsAfterDegree yields full exemption at reference year R if and only if
\* yearTo is null, or yearTo >= R, or yearTo < R <= yearTo + gracePeriodYears.
\* (In every evaluation whose active full-exemption grants all have no
\* yearsAfterDegree, full exemption applies iff one of them satisfies the rule.)
C6_ServiceExemption ==
    \A ev \in Evaluations :
        (\A g \in ActiveGrants(ev) :
            g.exemption_type.grants_full_exemption
                => g.exemption_type.years_after_degree = None)
        => ( ev.full
             <=> \E g \in ActiveGrants(ev) :
                    /\ g.exemption_type.grants_full_exemption
                    /\ ServiceRule(g, ev.reference_year) )

\* a service grant that ended before R, outside its grace period, still
\* overlaps the window and yields no full exemption; and one in its last year
\* yields it
C6_Witness ==
    \E ev \in Evaluations :
        /\ ev.kind = "status"
        /\ Len(exemptions) = 1
        /\ exemptions[1].exemption_type.grants_full_exemption
        /\ exemptions[1].exemption_type.years_after_degree = None
        /\ InSeq(1, ev.active_ids)
        /\ exemptions[1].year_to # None
        /\ exemptions[1].year_to[1] + GraceOf(exemptions[1]) < ev.reference_year
        /\ ~ev.full

\* C7: whenever a full exemption applies, the verdict is met = true with no
\* shortfall message and no numeric threshold, whatever the counts and the
\* category.
C7_FullExemptionMeets ==
    \A ev \in Evaluations :
        ev.full => /\ ev.met
                   /\ ev.shortfalls = <<>>
                   /\ ev.ic_required = None
                   /\ ev.prj_required = None
                   /\ ev.activities_required = None

\* a PA member without any record is fully exempt and meets the requirements
C7_Witness ==
    \E ev \in Evaluations :
        /\ ev.kind = "status"
        /\ ev.full
        /\ ev.category = "PA"
        /\ ev.activities = 0
        /\ ev.total_ics = 0
        /\ ev.met

\* the sum of f over the set S
RECURSIVE SumOver(_, _)
SumOver(S, f) ==
    IF S = {} THEN 0
    ELSE LET x == CHOOSE y \in S : TRUE IN f[x] + SumOver(S \ {x}, f)

Partial(ev) == {g \in ActiveGrants(ev) : ~g.exemption_type.grants_full_exemption}

\* C8 as stated: each reduction total is the sum of the magnitudes of the
\* active exemptions whose type does not grant full exemption.
C8_Original ==
    \A ev \in Evaluations :
        /\ ev.reductions.ic
              = SumOver(Partial(ev), [g \in Partial(ev) |-> g.exemption_type.ic_reduction])
        /\ ev.reductions.prj
              = SumOver(Partial(ev), [g \in Partial(ev) |-> g.exemption_type.prj_reduction])
        /\ ev.reductions.activity
              = SumOver(Partial(ev), [g \in Partial(ev) |-> g.exemption_type.activity_reduction])

\* C8, amended: each reduction total is the sum, over the active exemptions
\* whose type does not grant full exemption, of the magnitudes whose
\* reduces-flag is set; a magnitude without its flag counts as 0, and a type
\* that grants full exemption contributes nothing, whether or not it applies.
C8_ReductionTotals ==
    \A ev \in Evaluations :
        /\ ev.reductions.ic
              = SumOver(Partial(ev), [g \in Partial(ev) |->
                    IF g.exemption_type.reduces_ic_requirement
                    THEN g.exemption_type.ic_reduction ELSE 0])
        /\ ev.reductions.prj
              = SumOver(Partial(ev), [g \in Partial(ev) |->
                    IF g.exemption_type.reduces_prj_requirement
                    THEN g.exemption_type.prj_reduction ELSE 0])
        /\ ev.reductions.activity
              = SumOver(Partial(ev), [g \in Partial(ev) |->
                    IF g.exemption_type.reduces_activity_requirement
                    THEN g.exemption_type.activity_reduction ELSE 0])

\* an active full-exemption type with populated reductions that does not
\* apply at the reference year, next to a partial one that reduces
C8_Witness ==
    \E ev \in Evaluations :
        /\ ev.kind = "status"
        /\ ~ev.full
        /\ ev.reductions.ic > 0
        /\ \E g \in ActiveGrants(ev) :
              /\ g.exemption_type.grants_full_exemption
              /\ g.exemption_type.reduces_ic_requirement
              /\ g.exemption_type.ic_reduction > 0

C10_SPProgrammeLeader ==
    \A ev \in Evaluations :
        (ev.category = "SP" /\ ~ev.full /\ ev.is_programme_leader)
            => ev.prj_required = Some(1)

\* the only grant an evaluation found active, when there is exactly one
OnlyActiveGrant(ev) == exemptions[ev.active_ids[1]]

C13_ThresholdsClamped ==
    \A ev \in Evaluations :
        /\ ev.ic_required # None => ev.ic_required[1] >= 0
        /\ ev.prj_required # None => ev.prj_required[1] >= 0
        /\ ev.activities_required # None => ev.activities_required[1] >= 0
        /\ \A k \in DOMAIN ev.shortfalls : ev.shortfalls[k].gap >= 1

\* reductions beyond the base: the thresholds stop at zero
C13_Witness ==
    \E ev \in Evaluations :
        /\ ev.kind = "status"
        /\ ~ev.full
        /\ ev.reductions.activity > 6
        /\ ev.activities_required = Some(0)
        /\ ev.met

\* C14: for an SA or SP evaluation without full exemption, the shortfall list
\* holds a PRJ message exactly when PRJ count < prjRequired, stating the gap
\* prjRequired - PRJ count, and an intellectual-contribution message exactly
\* when total IC count < icRequired, stating the gap icRequired - total IC
\* count; both appear when both fail, and met is true exactly when the list is
\* empty.  (The overview reports no shortfall list.)
C14_ShortfallMessages ==
    \A ev \in Evaluations :
        (ev.kind # "overview" /\ ev.category \in {"SA", "SP"} /\ ~ev.full) =>
            /\ ev.shortfalls =
                  (IF ev.prj < ev.prj_required[1]
                   THEN <<[dimension |-> "prj", gap |-> ev.prj_required[1] - ev.prj]>>
                   ELSE <<>>)
                  \o
                  (IF ev.total_ics < ev.ic_required[1]
                   THEN <<[dimension |-> "ic",
                           gap |-> ev.ic_required[1] - ev.total_ics]>>
                   ELSE <<>>)
            /\ ev.met <=> ev.shortfalls = <<>>

\* SA, no exemptions, 2 PRJ articles and 3 other ICs: not met, gaps 1 and 1
C14_Witness ==
    \E ev \in Evaluations :
        /\ ev.kind = "status"
        /\ ev.category = "SA"
        /\ exemptions = <<>>
        /\ ev.prj = 2
        /\ ev.total_ics = 5
        /\ ~ev.met
        /\ ev.shortfalls = << [dimension |-> "prj", gap |-> 1],
                              [dimension |-> "ic", gap |-> 1] >>

\* C15: a member whose category is Other or is not set gets a "not evaluated"
\* result: neither the current status nor any timeline window holds counts,
\* required thresholds or a met verdict for them.
C15_NotEvaluated ==
    /\ (response.op = "status" /\ user.faculty_category \in {"Other", "None"})
          => response.qualification.status = "not_set"
    /\ \A ev \in Evaluations :
          ev.kind = "timeline" => ev.category \notin {"Other", "None"}

PublicationTypes == {"prj_article", "peer_reviewed_other", "other_ic"}

\* the stored publications dated in [year_from, year_to] that satisfy P
PublicationsIn(year_from, year_to, P(_)) ==
    Cardinality({i \in DOMAIN contributions :
                    /\ contributions[i].year # None
                    /\ year_from <= contributions[i].year[1]
                    /\ contributions[i].year[1] <= year_to
                    /\ P(contributions[i])})

\* the publications of the period the member has given a publication type
CategorizedIn(year_from, year_to) ==
    PublicationsIn(year_from, year_to,
                   LAMBDA c : c.my_categorization \in PublicationTypes)

PrjIn(year_from, year_to) ==
    PublicationsIn(year_from, year_to, LAMBDA c : c.my_categorization = "prj_article")

\* C16: a contribution whose publication type is uncategorized (null) adds
\* nothing to any count: the PRJ and total-IC counts of the current status, of
\* the overview and of every rolling window, the per-year bucket counts and the
\* totals of the timeline count the categorized contributions only.
C16_UncategorizedNotCounted ==
    /\ \A ev \in Evaluations :
          /\ ev.prj = PrjIn(ev.year_from, ev.year_to)
          /\ ev.total_ics = CategorizedIn(ev.year_from, ev.year_to)
    /\ response.op = "timeline" =>
          /\ \A k \in DOMAIN response.timeline.timeline :
                LET b == response.timeline.timeline[k] IN
                /\ b.prj_count = PrjIn(b.year, b.year)
                /\ b.ic_count = CategorizedIn(b.year, b.year)
                /\ b.other_ic_count = b.ic_count - b.prj_count
          /\ \A y \in 2000..2050 :
                CategorizedIn(y, y) > 0 =>
                    \E k \in DOMAIN response.timeline.timeline :
                        response.timeline.timeline[k].year = y
          /\ response.timeline.totals.total_ics = CategorizedIn(2000, 2050)
          /\ response.timeline.totals.total_prj = PrjIn(2000, 2050)

\* the same statement on the members all of whose publications are categorized
C16_CategorizedCounted ==
    (\A i \in DOMAIN contributions :
        contributions[i].my_categorization \in PublicationTypes)
    => C16_UncategorizedNotCounted

\* the stored publications dated in the period, categorized or not
RowsIn(year_from, year_to) == PublicationsIn(year_from, year_to, LAMBDA c : TRUE)

\* the stored activities dated in the period
ActivitiesIn(year_from, year_to) ==
    Cardinality({i \in DOMAIN activities :
                    year_from <= activities[i].year /\ activities[i].year <= year_to})

\* C17: every contribution count and every activity count of a current-status,
\* overview or timeline-window result counts exactly the records dated in the
\* period reported with that result, both ends inclusive: the PRJ count is the
\* number of PRJ articles of the period, the total IC count lies between the
\* categorized publications and all publications of the period, the activity
\* count is the number of activities of the period.
C17_CountsScopedToPeriod ==
    \A ev \in Evaluations :
        /\ ev.prj = PrjIn(ev.year_from, ev.year_to)
        /\ CategorizedIn(ev.year_from, ev.year_to) <= ev.total_ics
        /\ ev.total_ics <= RowsIn(ev.year_from, ev.year_to)
        /\ ev.activities = ActivitiesIn(ev.year_from, ev.year_to)

\* the same statement on the overview and the timeline windows alone
C17_StoredCountsScoped ==
    \A ev \in Evaluations :
        ev.kind # "status" =>
            /\ ev.prj = PrjIn(ev.year_from, ev.year_to)
            /\ CategorizedIn(ev.year_from, ev.year_to) <= ev.total_ics
            /\ ev.total_ics <= RowsIn(ev.year_from, ev.year_to)
            /\ ev.activities = ActivitiesIn(ev.year_from, ev.year_to)

\* the years in which the member has a stored categorization row or activity
RecordedYears ==
    {contributions[i].year[1] :
        i \in {j \in DOMAIN contributions :
                 /\ contributions[j].my_categorization # "absent"
                 /\ contributions[j].year # None}}
    \cup {activities[i].year : i \in DOMAIN activities}

\* C18: the rolling windows of the timeline are exactly the windows
\* [end-5, end], one for each end from max(minYear+5, referenceYear-2) through
\* maxYear+2 in ascending order, where minYear is the earliest recorded year
\* (the reference year when nothing is recorded) and maxYear the later of the
\* latest recorded year and the reference year.
C18_RollingWindows ==
    response.op = "timeline" =>
        LET windows == response.timeline.rolling_windows
            minYear == IF RecordedYears = {} THEN REFERENCE_YEAR
                       ELSE CHOOSE y \in RecordedYears :
                                \A z \in RecordedYears : y <= z
            maxYear == CHOOSE y \in RecordedYears \cup {REFERENCE_YEAR} :
                           \A z \in RecordedYears \cup {REFERENCE_YEAR} : y >= z
            firstEnd == IF minYear + 5 >= REFERENCE_YEAR - 2 THEN minYear + 5
                        ELSE REFERENCE_YEAR - 2
            lastEnd == maxYear + 2
        IN  /\ Len(windows) = IF lastEnd >= firstEnd THEN lastEnd - firstEnd + 1
                              ELSE 0
            /\ \A k \in DOMAIN windows :
                  /\ windows[k].year_to = firstEnd + k - 1
                  /\ windows[k].year_from = windows[k].year_to - 5

\* records from 2020 to 2026: the windows end in 2025, 2026, 2027 and 2028
C18_Witness ==
    /\ response.op = "timeline"
    /\ RecordedYears # {}
    /\ \A y \in RecordedYears : 2020 <= y /\ y <= 2026
    /\ {2020, 2026} \subseteq RecordedYears
    /\ Len(response.timeline.rolling_windows) = 4
    /\ response.timeline.rolling_windows[1].year_to = 2025
    /\ response.timeline.rolling_windows[4].year_to = 2028

\* C19: riskPeriods is exactly the sub-list of the rolling windows that end
\* after the reference year and are not met, and at_risk is true if and only if
\* riskPeriods is non-empty; a current or past window that is not met never
\* appears in riskPeriods.
C19_RiskPeriods ==
    response.op = "timeline" =>
        /\ response.timeline.risk_periods
              = SelectSeq(response.timeline.rolling_windows, LAMBDA w :
                    w.year_to > REFERENCE_YEAR /\ ~w.meets_requirements)
        /\ response.timeline.at_risk <=> response.timeline.risk_periods # <<>>
        /\ \A k \in DOMAIN response.timeline.risk_periods :
              response.timeline.risk_periods[k].year_to > REFERENCE_YEAR

\* the windows ending in 2024 and 2025 are not met and are no risk periods,
\* those ending later are
C19_Witness ==
    /\ response.op = "timeline"
    /\ response.timeline.at_risk
    /\ \E k \in DOMAIN response.timeline.rolling_windows :
          /\ response.timeline.rolling_windows[k].year_to <= REFERENCE_YEAR
          /\ ~response.timeline.rolling_windows[k].meets_requirements
    /\ Len(response.timeline.risk_periods)
           < Len(SelectSeq(response.timeline.rolling_windows,
                           LAMBDA w : ~w.meets_requirements))

\* C20: each rolling window is flagged is_current if and only if its end equals
\* the reference year, and is_future if and only if its end is greater than
\* the reference year; no window carries both flags.
C20_WindowFlags ==
    response.op = "timeline" =>
        \A k \in DOMAIN response.timeline.rolling_windows :
            LET w == response.timeline.rolling_windows[k] IN
            /\ w.is_current <=> w.year_to = REFERENCE_YEAR
            /\ w.is_future <=> w.year_to > REFERENCE_YEAR
            /\ ~(w.is_current /\ w.is_future)

\* a timeline with a past window, the current one and future ones
C20_Witness ==
    /\ response.op = "timeline"
    /\ \E k, l, m \in DOMAIN response.timeline.rolling_windows :
          /\ response.timeline.rolling_windows[k].year_to < REFERENCE_YEAR
          /\ ~response.timeline.rolling_windows[k].is_current
          /\ ~response.timeline.rolling_windows[k].is_future
          /\ response.timeline.rolling_windows[l].is_current
          /\ response.timeline.rolling_windows[m].is_future

\* C21: isProgrammeLeader is true if and only if at least one exemption active
\* for the evaluated window has the type name "Programme Leader", whatever the
\* other flags of that type are.  (Stated on the evaluations without full
\* exemption, where the flag decides the PRJ floor.)
C21_ProgrammeLeaderFlag ==
    \A ev \in Evaluations :
        ~ev.full =>
            ( ev.is_programme_leader
              <=> \E g \in ActiveGrants(ev) :
                     g.exemption_type.name = ProgrammeLeader )

\* the same statement on the overview and the timeline windows alone
C21_StoredProgrammeLeaderFlag ==
    \A ev \in Evaluations :
        (ev.kind # "status" /\ ~ev.full) =>
            ( ev.is_programme_leader
              <=> \E g \in ActiveGrants(ev) :
                     g.exemption_type.name = ProgrammeLeader )

\* the fields of a rolling window that the response carries
ReportedWindow(w) ==
    [ year_from |-> w.year_from,
      year_to |-> w.year_to,
      prj_count |-> w.prj_count,
      total_ics |-> w.total_ics,
      activities |-> w.activities,
      meets_requirements |-> w.meets_requirements,
      status_notes |-> w.status_notes,
      is_current |-> w.is_current,
      is_future |-> w.is_future ]

\* the output of a timeline computation the statement on repeated
\* computations lists
ReportedTimeline(t) ==
    [ timeline |-> t.timeline,
      rolling_windows |-> MapSeq(t.rolling_windows, ReportedWindow),
      risk_periods |-> MapSeq(t.risk_periods, ReportedWindow),
      at_risk |-> t.at_risk ]

C23_NoSideEffect ==
    [][ (CalculateQualificationStatus \/ GetFacultyOverview
         \/ GetResearcherTimeline) => UNCHANGED stored ]_vars

\* the same statement on the overview and the timeline alone
C23_StoredEvaluationsReadOnly ==
    [][ (GetFacultyOverview \/ GetResearcherTimeline) => UNCHANGED stored ]_vars

\* C24: the current-status evaluation never ends in an error: for a member
\* with zero exemptions, an unknown degree year, no contributions, no
\* activities, or contributions not categorized yet, it returns a complete
\* result in which the missing records count as zero.
C24_StatusNeverFails ==
    response.op = "status" =>
        /\ response.qualification.status # "error"
        /\ response.qualification.status = "ok" =>
              /\ response.qualification.current.total_ics
                    = CategorizedIn(response.period.year_from,
                                    response.period.year_to)
              /\ response.qualification.current.professional_activities
                    = Len(activities)

\* the same statement on the members who have a categorization row for every
\* publication of the period
C24_StatusCompleteWithRows ==
    (\A i \in DOMAIN contributions :
        contributions[i].my_categorization # "absent")
    => C24_StatusNeverFails

\* the verdict of the overview loop for the member on the window [r-5, r]
OverviewVerdict(r) ==
    overview_entry(user, exemptions, contributions, activities, r - WindowSpan, r)

\* the verdict of the timeline window loop for the member on [r-5, r]
WindowVerdict(r) ==
    rolling_window(user, exemptions, contributions, activities, r)

\* C25: for the same category, the same actual counts, the same list of active
\* exemptions, the same degree year and the same reference year,
\* calculate_qualification_status, the faculty-overview loop and the timeline
\* window loop return the same met verdict.
C25_EvaluatorsAgree ==
    \A ev \in Evaluations :
        ev.kind = "status" =>
            /\ ( /\ OverviewVerdict(ev.reference_year).ics.prj_articles = ev.prj
                 /\ OverviewVerdict(ev.reference_year).ics.total = ev.total_ics
                 /\ OverviewVerdict(ev.reference_year).activities = ev.activities )
               => OverviewVerdict(ev.reference_year).requirements_met = ev.met
            /\ ( /\ WindowVerdict(ev.reference_year).prj_count = ev.prj
                 /\ WindowVerdict(ev.reference_year).total_ics = ev.total_ics
                 /\ WindowVerdict(ev.reference_year).activities = ev.activities )
               => WindowVerdict(ev.reference_year).meets_requirements = ev.met

\* the overview loop and the timeline window loop agree with each other
C25_StoredEvaluatorsAgree ==
    \A ev \in Evaluations :
        ( /\ ev.kind = "overview"
          /\ ev.year_from = ev.year_to - WindowSpan
          /\ WindowVerdict(ev.year_to).prj_count = ev.prj
          /\ WindowVerdict(ev.year_to).total_ics = ev.total_ics
          /\ WindowVerdict(ev.year_to).activities = ev.activities )
        => WindowVerdict(ev.year_to).meets_requirements = ev.met

\* the member's grants without the grant of id i
WithoutGrant(i) == SelectSeq(exemptions, LAMBDA e : e.id # i)

\* the thresholds and the verdict the evaluator of ev gives without grant i
Before(ev, i) ==
    IF ev.kind = "status"
    THEN LET q == calculate_qualification_status(user, WithoutGrant(i),
                      get_my_contributions(user, contributions,
                          REFERENCE_YEAR - ContributionSpan, REFERENCE_YEAR),
                      activities, ev.reference_year)
         IN  [ ic_required |-> q.requirements.total_ics_required,
               prj_required |-> q.requirements.prj_required,
               activities_required |-> q.requirements.activities_required,
               met |-> q.requirements_met ]
    ELSE IF ev.kind = "overview"
    THEN LET o == overview_entry(user, WithoutGrant(i), contributions, activities,
                                 ev.year_from, ev.year_to)
         IN  [ ic_required |-> o.total_ics_required,
               prj_required |-> o.prj_required,
               activities_required |-> o.activities_required,
               met |-> o.requirements_met ]
    ELSE LET w == rolling_window(user, WithoutGrant(i), contributions, activities,
                                 ev.year_to)
         IN  [ ic_required |-> w.total_ics_required,
               prj_required |-> w.prj_required,
               activities_required |-> w.activities_required,
               met |-> w.meets_requirements ]

\* no threshold of ev is above the one of b, and ev is met if b is
NotWorseThan(ev, b) ==
    /\ (ev.ic_required # None /\ b.ic_required # None)
          => ev.ic_required[1] <= b.ic_required[1]
    /\ (ev.prj_required # None /\ b.prj_required # None)
          => ev.prj_required[1] <= b.prj_required[1]
    /\ (ev.activities_required # None /\ b.activities_required # None)
          => ev.activities_required[1] <= b.activities_required[1]
    /\ b.met => ev.met

\* the active partial grants of an evaluation
ActivePartialIds(ev) ==
    {i \in DOMAIN exemptions :
        /\ InSeq(i, ev.active_ids)
        /\ ~exemptions[i].exemption_type.grants_full_exemption}

\* the magnitudes of a type that enter the reduction totals are >= 0
FlaggedMagnitudesNonNegative(t) ==
    /\ t.reduces_ic_requirement => t.ic_reduction >= 0
    /\ t.reduces_prj_requirement => t.prj_reduction >= 0
    /\ t.reduces_activity_requirement => t.activity_reduction >= 0

CurrentWindows ==
    {k \in DOMAIN response.timeline.rolling_windows :
        response.timeline.rolling_windows[k].is_current}

\* C27 as stated: for every member and every set of stored records, the
\* rolling windows contain exactly one window flagged is_current, namely
\* [referenceYear-5, referenceYear].
C27_Original ==
    response.op = "timeline" =>
        /\ Cardinality(CurrentWindows) = 1
        /\ \A k \in CurrentWindows :
              /\ response.timeline.rolling_windows[k].year_from
                     = REFERENCE_YEAR - 5
              /\ response.timeline.rolling_windows[k].year_to = REFERENCE_YEAR

\* what holds of the current window: the rolling windows contain at most one
\* window flagged is_current, and it is [referenceYear-5, referenceYear]; there
\* is one if and only if the member has a record dated referenceYear-5 or
\* earlier.
C27_CurrentWindow ==
    response.op = "timeline" =>
        /\ Cardinality(CurrentWindows) <= 1
        /\ CurrentWindows # {}
              <=> \E y \in RecordedYears : y <= REFERENCE_YEAR - 5
        /\ \A k \in CurrentWindows :
              /\ response.timeline.rolling_windows[k].year_from
                     = REFERENCE_YEAR - 5
              /\ response.timeline.rolling_windows[k].year_to = REFERENCE_YEAR

\* a member with records since 2019: the windows end in 2024 to 2028 and
\* the one ending in 2025 is the current one
C27_Witness ==
    /\ response.op = "timeline"
    /\ RecordedYears # {}
    /\ \A y \in RecordedYears : y >= 2019
    /\ Len(response.timeline.rolling_windows) > 3
    /\ Cardinality(CurrentWindows) = 1

\* the window ending the year after the reference year, evaluated as the
\* window loop of the timeline evaluates a window
NextYearWindow ==
    rolling_window(user, exemptions, contributions, activities,
                   REFERENCE_YEAR + 1)

\* C28: if the 6-year window ending at referenceYear+1 would not meet the
\* requirements of an SA, SP, PA or IP member who has no full exemption for it,
\* the timeline reports at_risk = true; in particular a non-exempt member with
\* no contributions and no activities is reported at risk.
C28_AtRisk ==
    (/\ response.op = "timeline"
     /\ user.faculty_category \in {"SA", "SP", "PA", "IP"}
     /\ ~NextYearWindow.has_full_exemption
     /\ ~NextYearWindow.meets_requirements)
        => response.timeline.at_risk

\* what holds of at_risk: the members who have a record dated referenceYear-4
\* or earlier are reported at risk when that window is not met, since their
\* rolling windows include the one ending at referenceYear+1.
C28_AtRiskWithEarlyRecord ==
    (/\ response.op = "timeline"
     /\ user.faculty_category \in {"SA", "SP", "PA", "IP"}
     /\ \E y \in RecordedYears : y <= REFERENCE_YEAR - 4
     /\ ~NextYearWindow.has_full_exemption
     /\ ~NextYearWindow.meets_requirements)
        => response.timeline.at_risk

\* the met verdict, the thresholds and the shortfall gaps of an evaluation
Outcome(ev) ==
    [ met |-> ev.met,
      ic_required |-> ev.ic_required,
      prj_required |-> ev.prj_required,
      activities_required |-> ev.activities_required,
      shortfalls |-> ev.shortfalls ]

\* the outcome of the same evaluation when the grants are visited in the
\* order in which they are stored
OutcomeInStoredOrder(ev) ==
    IF ev.kind = "status"
    THEN LET q == calculate_qualification_status(user, exemptions,
                      get_my_contributions(user, contributions,
                          REFERENCE_YEAR - ContributionSpan, REFERENCE_YEAR),
                      activities, ev.reference_year)
         IN  [ met |-> q.requirements_met,
               ic_required |-> q.requirements.total_ics_required,
               prj_required |-> q.requirements.prj_required,
               activities_required |-> q.requirements.activities_required,
               shortfalls |-> q.warnings ]
    ELSE IF ev.kind = "overview"
    THEN LET f == overview_entry(user, exemptions, contributions, activities,
                                 ev.year_from, ev.year_to)
         IN  [ met |-> f.requirements_met,
               ic_required |-> f.total_ics_required,
               prj_required |-> f.prj_required,
               activities_required |-> f.activities_required,
               shortfalls |-> <<>> ]
    ELSE LET w == rolling_window(user, exemptions, contributions, activities,
                                 ev.year_to)
         IN  [ met |-> w.meets_requirements,
               ic_required |-> w.total_ics_required,
               prj_required |-> w.prj_required,
               activities_required |-> w.activities_required,
               shortfalls |-> MapSeq(SelectSeq(w.status_notes,
                                         LAMBDA n : n.dimension # "full"),
                                     NoteGap) ]

\* C29: the met verdict, the thresholds and the shortfall gaps of an
\* evaluation do not depend on the order in which the member's grants are
\* visited: every order gives what the stored order gives.
C29_OrderIndependent ==
    \A ev \in Evaluations : Outcome(ev) = OutcomeInStoredOrder(ev)

\* an evaluation that visited two active grants in the opposite of the stored
\* order, one of them a Programme Leader grant, and found the member not met
C29_Witness ==
    \E ev \in Evaluations :
        /\ Len(ev.active_ids) = 2
        /\ ev.active_ids[1] > ev.active_ids[2]
        /\ ~ev.full
        /\ \E g \in ActiveGrants(ev) : g.exemption_type.name = ProgrammeLeader
        /\ \E g \in ActiveGrants(ev) : g.exemption_type.name # ProgrammeLeader
        /\ ~ev.met
        /\ ev.shortfalls # <<>>

\* every reduction stored in exemption_types is non-negative
StoredReductionsNonNegative ==
    \A t \in exemption_types :
        t.ic_reduction >= 0 /\ t.prj_reduction >= 0 /\ t.activity_reduction >= 0

\* no evaluation requires more than the base of the member's category
NoRequirementAboveBase ==
    \A ev \in Evaluations :
        /\ (ev.category = "SA" /\ ev.ic_required # None)
              => ev.ic_required[1] <= BaseIcSA /\ ev.prj_required[1] <= BasePrjSA
        /\ (ev.category = "SP" /\ ev.ic_required # None)
              => ev.ic_required[1] <= BaseIcSP /\ ev.prj_required[1] <= BasePrjSP
        /\ ev.activities_required # None
              => ev.activities_required[1] <= BaseActivities

\* C30: after any sequence of create and update operations on exemption
\* types every stored reduction is non-negative, so no evaluation requires
\* more than the base of the category.
C30_ReductionsNonNegative ==
    StoredReductionsNonNegative /\ NoRequirementAboveBase

\* the consequence of C30 for the evaluations of members whose grants are all
\* of types with non-negative reductions
C30_RequirementWithinBase ==
    (\A i \in DOMAIN exemptions :
        /\ exemptions[i].exemption_type.ic_reduction >= 0
        /\ exemptions[i].exemption_type.prj_reduction >= 0
        /\ exemptions[i].exemption_type.activity_reduction >= 0)
        => NoRequirementAboveBase

=============================================================================
